---- MODULE Spec2Model ----
(***************************************************************************)
(* Model of the encryption session of calyx:                               *)
(*   src/lib/contexts/SecretContext.tsx  (SecretProvider: unlock, lock,    *)
(*       checkPassphraseSetup, the visibility and inactivity effects)      *)
(*   lib/crypto.ts as listed in src/progress.md (deriveKey, encrypt,       *)
(*       decrypt)                                                          *)
(*   the components that call encrypt/decrypt with the session's key.      *)
(*                                                                         *)
(* JavaScript runs one continuation at a time; every action below is one   *)
(* continuation: the code between two awaits of a handler.                 *)
(***************************************************************************)
EXTENDS Integers, FiniteSets, Sequences, TLC

\* ------------------------------------------------------------------ bounds
MaxCalls == 2      \* unlock calls that can be in flight together
MaxIv == 5         \* IVs the model lets the random generator draw
MaxText == 5       \* characters of a file given to parseEncryptedEnvContent
MaxEntries == 2    \* entries of a list given to the .env export
MaxPlain == 2      \* code units of a plaintext given to encrypt

\* --------------------------------------------------------------- constants
\* 30 * 60 * 1000 ms (SecretContext.tsx:164), in ticks of ten minutes
INACTIVITY_TICKS == 3

\* null of each type (TLC compares values of one type only)
NullKey == <<>>
NullIv == 0
NullCt == [key |-> <<>>, iv |-> 0, pt |-> ""]
Calls == 1..MaxCalls
Passphrases == {"p", "q"}
Salt == "salt0"
UNLOCK_OK == "UNLOCK_OK"
\* a canary plaintext that is not exactly the test string
UNLOCK_PADDED == "UNLOCK_OK "

\* IVs of the rows that exist before the client starts
CanaryIv0 == 1
EnvVarIv0 == 2
EnvFileIv0 == 3
FirstFreshIv == 4

\* the handlers that encrypt or decrypt with the session's key
Handlers == {"AddEnvDialog", "SaveEdit", "DownloadEnv"}

VARIABLES
  profile,            \* the user's row of table profiles
  cryptoKey,          \* useState cryptoKey
  isUnlocked,         \* useState isUnlocked
  isPassphraseSetup,  \* useState isPassphraseSetup
  isLoading,          \* useState isLoading
  pc,                 \* per unlock call: the await it is suspended at
  pass,               \* per unlock call: its passphrase argument
  snap,               \* per unlock call: the profile its select returned
  key,                \* per unlock call: the key deriveKey returned
  blob,               \* per unlock call: {iv, ciphertext} of encrypt("UNLOCK_OK")
  err,                \* per unlock call: the error it rejected with
  checkPc,            \* checkPassphraseSetup: where it is
  checkSnap,          \* checkPassphraseSetup: what its select returned
  nextIv,             \* the next value crypto.getRandomValues yields
  lockedDuring,       \* history: calls in flight that lock() has overtaken
  timerArmed,         \* the inactivity effect holds a pending setTimeout
  elapsed,            \* ticks since that setTimeout was made
  hidden,             \* document.hidden
  sinceActivity,      \* history: ticks since the last activity signal or unlock
  autoLock,           \* history: the last auto-lock trigger and the idle time then
  field,              \* per handler: where it is, the key it captured, its result
  envFile,            \* currentEnvFile {iv, ciphertext} of the env-file details view
  usedIvs,            \* history: the ivs encrypt calls have used so far
  view,               \* the env-file details view: decryptedContent, decrypts in flight
  parser,             \* a run of the .env export and parseEncryptedEnvContent
  codec               \* a run of encrypt, an export format and decrypt

vars == <<profile, cryptoKey, isUnlocked, isPassphraseSetup, isLoading,
          pc, pass, snap, key, blob, err, checkPc, checkSnap, nextIv,
          lockedDuring, timerArmed, elapsed, hidden, sinceActivity, autoLock,
          field, envFile, usedIvs, view, parser, codec>>

callVars == <<pc, pass, snap, key, blob, err>>
checkVars == <<checkPc, checkSnap, isLoading>>
timerVars == <<timerArmed, elapsed>>
historyVars == <<sinceActivity, autoLock>>
fieldVars == <<field, envFile>>
ivVars == <<nextIv, usedIvs>>
pureVars == <<parser, codec>>

\* ------------------------------------------------------------------ strings
\* A JavaScript string is the sequence of its characters, each a one-character
\* string; indices are JavaScript's (from 0), substring(a, b) excludes b.
LF == "\n"

\* the white space String.prototype.trim removes, among the model's characters
IsSpace(ch) == ch \in {" ", LF}

\* s.indexOf(ch)
IndexOf(s, ch) ==
  IF \E i \in 1..Len(s) : s[i] = ch
  THEN (CHOOSE i \in 1..Len(s) :
          s[i] = ch /\ \A j \in 1..(i - 1) : s[j] # ch) - 1
  ELSE -1

\* s.substring(a, b) and s.substring(a)
Substring(s, a, b) == SubSeq(s, a + 1, b)
SubstringFrom(s, a) == SubSeq(s, a + 1, Len(s))

\* s.trim()
RECURSIVE TrimStart(_)
TrimStart(s) ==
  IF s # <<>> /\ IsSpace(Head(s)) THEN TrimStart(Tail(s)) ELSE s

RECURSIVE TrimEnd(_)
TrimEnd(s) ==
  IF s # <<>> /\ IsSpace(s[Len(s)])
  THEN TrimEnd(SubSeq(s, 1, Len(s) - 1))
  ELSE s

Trim(s) == TrimEnd(TrimStart(s))

\* s.split(sep), sep one character
RECURSIVE Split(_, _)
Split(s, sep) ==
  LET i == IndexOf(s, sep) IN
  IF i = -1
  THEN <<s>>
  ELSE <<Substring(s, 0, i)>> \o Split(SubstringFrom(s, i + 1), sep)

\* list.join(sep)
RECURSIVE Join(_, _)
Join(list, sep) ==
  IF list = <<>> THEN <<>>
  ELSE IF Len(list) = 1 THEN list[1]
  ELSE list[1] \o <<sep>> \o Join(Tail(list), sep)

\* ------------------------------------------------------------------ base64
\* the base64 alphabet, by value
B64Chars ==
  << "A", "B", "C", "D", "E", "F", "G", "H", "I", "J", "K", "L", "M", "N", "O",
     "P", "Q", "R", "S", "T", "U", "V", "W", "X", "Y", "Z", "a", "b", "c", "d",
     "e", "f", "g", "h", "i", "j", "k", "l", "m", "n", "o", "p", "q", "r", "s",
     "t", "u", "v", "w", "x", "y", "z", "0", "1", "2", "3", "4", "5", "6", "7",
     "8", "9", "+", "/" >>

B64Val(c) == (CHOOSE i \in 1..Len(B64Chars) : B64Chars[i] = c) - 1
B64Char(v) == B64Chars[v + 1]

\* atob, before it decodes: ASCII white space is removed, and one or two
\* trailing "=" when what is left has a length divisible by 4
AtobStripped(data) ==
  LET s == SelectSeq(data, LAMBDA c : ~IsSpace(c))
      n == Len(s)
  IN IF n > 0 /\ n % 4 = 0 /\ s[n] = "="
     THEN IF s[n - 1] = "=" THEN SubSeq(s, 1, n - 2) ELSE SubSeq(s, 1, n - 1)
     ELSE s

\* atob throws InvalidCharacterError
AtobThrows(data) ==
  LET s == AtobStripped(data) IN
  \/ Len(s) % 4 = 1
  \/ \E i \in 1..Len(s) : \A j \in 1..Len(B64Chars) : B64Chars[j] # s[i]

\* the bytes of four, three or two characters; left-over bits are dropped
RECURSIVE B64Decode(_)
B64Decode(s) ==
  IF Len(s) < 2 THEN <<>>
  ELSE LET b1 == B64Val(s[1]) * 4 + B64Val(s[2]) \div 16
           b2 == (B64Val(s[2]) % 16) * 16 + B64Val(s[3]) \div 4
           b3 == (B64Val(s[3]) % 4) * 64 + B64Val(s[4])
       IN IF Len(s) = 2 THEN <<b1>>
          ELSE IF Len(s) = 3 THEN <<b1, b2>>
          ELSE <<b1, b2, b3>> \o B64Decode(SubSeq(s, 5, Len(s)))

\* Uint8Array.from(atob(data), (c) => c.charCodeAt(0)), when atob does not throw
Atob(data) == B64Decode(AtobStripped(data))

\* btoa(String.fromCharCode(...bytes))
RECURSIVE Btoa(_)
Btoa(b) ==
  IF b = <<>> THEN <<>>
  ELSE IF Len(b) = 1
  THEN << B64Char(b[1] \div 4), B64Char((b[1] % 4) * 16), "=", "=" >>
  ELSE IF Len(b) = 2
  THEN << B64Char(b[1] \div 4), B64Char((b[1] % 4) * 16 + b[2] \div 16),
          B64Char((b[2] % 16) * 4), "=" >>
  ELSE << B64Char(b[1] \div 4), B64Char((b[1] % 4) * 16 + b[2] \div 16),
          B64Char((b[2] % 16) * 4 + b[3] \div 64), B64Char(b[3] % 64) >>
       \o Btoa(SubSeq(b, 4, Len(b)))

\* isValidBase64(str), download-utils.ts:12-24
isValidBase64(str) ==
  /\ str # <<>>
  /\ ~AtobThrows(str)
  /\ Btoa(Atob(str)) = str

\* isValidEncryptedEntry(entry), part_017:75-84
isValidEncryptedEntry(entry) ==
  ~AtobThrows(entry.iv) /\ ~AtobThrows(entry.ciphertext)

\* ------------------------------------------- lib/crypto.ts, byte for byte
\* const IV_LENGTH = 12
IV_LENGTH == 12

\* A plaintext is the sequence of its UTF-16 code units. The ones the model
\* draws from: "A", e-acute (233), the byte order mark U+FEFF.
LetterA == 65
ByteOrderMark == 65279
ReplacementChar == 65533

IsSurrogate(u) == u >= 55296 /\ u <= 57343

\* new TextEncoder().encode(plaintext): UTF-8; a surrogate that is not part
\* of a pair is encoded as U+FFFD
RECURSIVE Utf8Encode(_)
Utf8Encode(str) ==
  IF str = <<>> THEN <<>>
  ELSE LET u == Head(str) IN
       IF /\ u >= 55296 /\ u <= 56319
          /\ Len(str) >= 2 /\ str[2] >= 56320 /\ str[2] <= 57343
       THEN LET cp == 65536 + (u - 55296) * 1024 + (str[2] - 56320) IN
            << 240 + (cp \div 262144), 128 + ((cp \div 4096) % 64),
               128 + ((cp \div 64) % 64), 128 + (cp % 64) >>
            \o Utf8Encode(SubSeq(str, 3, Len(str)))
       ELSE LET c == IF IsSurrogate(u) THEN ReplacementChar ELSE u IN
            (IF c < 128 THEN <<c>>
             ELSE IF c < 2048 THEN <<192 + (c \div 64), 128 + (c % 64)>>
             ELSE << 224 + (c \div 4096), 128 + ((c \div 64) % 64),
                     128 + (c % 64) >>)
            \o Utf8Encode(Tail(str))

\* the code units the UTF-8 decoder makes of the bytes; a byte that starts no
\* well-formed sequence becomes U+FFFD
IsCont(b, i) == i <= Len(b) /\ b[i] >= 128 /\ b[i] <= 191

RECURSIVE Utf8Units(_)
Utf8Units(b) ==
  IF b = <<>> THEN <<>>
  ELSE IF b[1] < 128 THEN <<b[1]>> \o Utf8Units(Tail(b))
  ELSE IF b[1] >= 194 /\ b[1] <= 223 /\ IsCont(b, 2)
  THEN <<(b[1] - 192) * 64 + (b[2] - 128)>> \o Utf8Units(SubSeq(b, 3, Len(b)))
  ELSE IF /\ b[1] >= 224 /\ b[1] <= 239 /\ IsCont(b, 2) /\ IsCont(b, 3)
          /\ (b[1] - 224) * 4096 + (b[2] - 128) * 64 >= 2048
          /\ ~IsSurrogate((b[1] - 224) * 4096 + (b[2] - 128) * 64)
  THEN <<(b[1] - 224) * 4096 + (b[2] - 128) * 64 + (b[3] - 128)>>
       \o Utf8Units(SubSeq(b, 4, Len(b)))
  ELSE IF /\ b[1] >= 240 /\ b[1] <= 244
          /\ IsCont(b, 2) /\ IsCont(b, 3) /\ IsCont(b, 4)
          /\ (b[1] - 240) * 262144 + (b[2] - 128) * 4096 >= 65536
          /\ (b[1] - 240) * 262144 + (b[2] - 128) * 4096 < 1114112
  THEN LET cp == (b[1] - 240) * 262144 + (b[2] - 128) * 4096
                 + (b[3] - 128) * 64 + (b[4] - 128) IN
       << 55296 + ((cp - 65536) \div 1024), 56320 + ((cp - 65536) % 1024) >>
       \o Utf8Units(SubSeq(b, 5, Len(b)))
  ELSE <<ReplacementChar>> \o Utf8Units(Tail(b))

\* new TextDecoder().decode(buffer): ignoreBOM is false by default, so a byte
\* order mark at the start is not part of the result
Utf8Decode(b) ==
  LET units == Utf8Units(b) IN
  IF units # <<>> /\ Head(units) = ByteOrderMark THEN Tail(units) ELSE units

RECURSIVE SumBytes(_)
SumBytes(b) == IF b = <<>> THEN 0 ELSE Head(b) + SumBytes(Tail(b))

\* AES-GCM of crypto.subtle, reduced to what the program relies on: a key
\* stream set by key and iv, and a tag that no other key, iv or body yields
\* (within the model's keys and data, which is what 128-bit tags give).
KeyByte(k) == IF k = NullKey THEN 0 ELSE IF k[1] = "p" THEN 80 ELSE 81

TagLength == 2

KeyStream(k, iv, i) == (7 * KeyByte(k) + SumBytes(iv) + i) % 256

GcmTag(k, iv, body) ==
  << KeyByte(k), (SumBytes(iv) + Len(iv) + SumBytes(body)) % 256 >>

\* crypto.subtle.encrypt({name: "AES-GCM", iv}, key, encoded)
AesGcmEncrypt(k, iv, encoded) ==
  LET body == [i \in 1..Len(encoded) |->
                 (encoded[i] + KeyStream(k, iv, i)) % 256]
  IN body \o GcmTag(k, iv, body)

\* a cipher mode without a tag: every ciphertext decrypts under every key
NoTagCheck(k, iv, ct) == Len(ct) >= TagLength

\* crypto.subtle.decrypt resolves: the tag verifies under key and iv
AesGcmVerifies(k, iv, ct) ==
  /\ Len(ct) >= TagLength
  /\ SubSeq(ct, Len(ct) - TagLength + 1, Len(ct))
       = GcmTag(k, iv, SubSeq(ct, 1, Len(ct) - TagLength))

\* what it resolves with
AesGcmDecrypt(k, iv, ct) ==
  [i \in 1..(Len(ct) - TagLength) |->
     (ct[i] + 256 - KeyStream(k, iv, i)) % 256]

\* encrypt(plaintext, key), progress.md:1608-1625, with iv the bytes
\* crypto.getRandomValues yields
encrypt(plaintext, k, iv) ==
  [iv |-> Btoa(iv),
   ciphertext |-> Btoa(AesGcmEncrypt(k, iv, Utf8Encode(plaintext)))]

\* how a decrypt call ends: it resolves with a string, or rejects with the
\* DOMException atob throws or with the one crypto.subtle.decrypt rejects
\* with; aead tells whether crypto.subtle.decrypt was called
Resolved(str) == [kind |-> "string", value |-> str, aead |-> TRUE]
InvalidCharacterError ==
  [kind |-> "InvalidCharacterError", value |-> <<>>, aead |-> FALSE]
OperationErrorOutcome ==
  [kind |-> "OperationError", value |-> <<>>, aead |-> TRUE]

\* decrypt(ivBase64, ciphertextBase64, key), progress.md:1631-1648
decrypt(ivBase64, ciphertextBase64, k) ==
  IF AtobThrows(ivBase64) \/ AtobThrows(ciphertextBase64)
  THEN InvalidCharacterError
  ELSE LET iv == Atob(ivBase64)
           ciphertext == Atob(ciphertextBase64)
       IN IF AesGcmVerifies(k, iv, ciphertext)
          THEN Resolved(Utf8Decode(AesGcmDecrypt(k, iv, ciphertext)))
          ELSE OperationErrorOutcome

\* ------------------------------------------------ download-utils.ts, export
\* what a download function does: it throws, or it hands downloadFile a text
Thrown == [ok |-> FALSE, content |-> <<>>]
Downloaded(content) == [ok |-> TRUE, content |-> content]

\* JSON.stringify of a string: quoted, with quote, backslash and newline
\* escaped
RECURSIVE JsonEscape(_)
JsonEscape(str) ==
  IF str = <<>> THEN <<>>
  ELSE (IF Head(str) \in {"\"", "\\"} THEN <<"\\", Head(str)>>
        ELSE IF Head(str) = LF THEN <<"\\", "n">>
        ELSE <<Head(str)>>)
       \o JsonEscape(Tail(str))

JsonString(str) == <<"\"">> \o JsonEscape(str) \o <<"\"">>

\* JSON.stringify({key, iv, ciphertext}, null, 2)
JsonStringify(envVar) ==
  <<"{", LF, " ", " ">> \o JsonString(<<"k", "e", "y">>) \o <<":", " ">>
    \o JsonString(envVar.key) \o <<",", LF, " ", " ">>
    \o JsonString(<<"i", "v">>) \o <<":", " ">>
    \o JsonString(envVar.iv) \o <<",", LF, " ", " ">>
    \o JsonString(<<"c", "i", "p", "h", "e", "r", "t", "e", "x", "t">>)
    \o <<":", " ">> \o JsonString(envVar.ciphertext) \o <<LF, "}">>

\* JSON.parse, on a text JSON.stringify made of such an object: the string
\* that starts after an opening quote, and the text after its closing quote
RECURSIVE JsonReadString(_)
JsonReadString(t) ==
  IF t = <<>> THEN [value |-> <<>>, rest |-> <<>>]
  ELSE IF Head(t) = "\"" THEN [value |-> <<>>, rest |-> Tail(t)]
  ELSE IF Head(t) = "\\" /\ Len(t) >= 2
  THEN LET r == JsonReadString(SubSeq(t, 3, Len(t))) IN
       [value |-> <<IF t[2] = "n" THEN LF ELSE t[2]>> \o r.value,
        rest |-> r.rest]
  ELSE LET r == JsonReadString(Tail(t)) IN
       [value |-> <<Head(t)>> \o r.value, rest |-> r.rest]

\* the strings of the text, names and values, in order
RECURSIVE JsonStrings(_)
JsonStrings(t) ==
  IF IndexOf(t, "\"") = -1 THEN <<>>
  ELSE LET r == JsonReadString(SubstringFrom(t, IndexOf(t, "\"") + 1)) IN
       <<r.value>> \o JsonStrings(r.rest)

JsonParse(t) ==
  LET l == JsonStrings(t) IN
  [key |-> l[2], iv |-> l[4], ciphertext |-> l[6]]

\* downloadSingleEncrypted(projectName, envVar), lines 69-93
downloadSingleEncrypted(envVar) ==
  IF ~isValidBase64(envVar.iv) \/ ~isValidBase64(envVar.ciphertext)
  THEN Thrown
  ELSE Downloaded(JsonStringify(envVar))

\* `${envVar.key}=${envVar.iv} ${envVar.ciphertext}`
EnvLineSpaced(envVar) ==
  envVar.key \o <<"=">> \o envVar.iv \o <<" ">> \o envVar.ciphertext

\* `${envVar.key}=${envVar.iv}:${envVar.ciphertext}`, line 148
EnvLine(envVar) ==
  envVar.key \o <<"=">> \o envVar.iv \o <<":">> \o envVar.ciphertext

\* downloadAllEncryptedEnv(projectName, envVars), lines 133-152
downloadAllEncryptedEnv(envVars) ==
  IF \E i \in 1..Len(envVars) :
       ~isValidBase64(envVars[i].iv) \/ ~isValidBase64(envVars[i].ciphertext)
  THEN Thrown
  ELSE Downloaded(Join([i \in 1..Len(envVars) |-> EnvLine(envVars[i])], LF))

\* ------------------------------------------- encrypted-env-parser (part_017)
\* value.lastIndexOf(":")
LastColonIndex(value) ==
  IF \E i \in 1..Len(value) : value[i] = ":"
  THEN (CHOOSE i \in 1..Len(value) :
          value[i] = ":" /\ \A j \in (i + 1)..Len(value) : value[j] # ":") - 1
  ELSE -1

\* const colonIndex = value.indexOf(":"), line 53
ColonIndex(value) == IndexOf(value, ":")

\* the body of the loop, lines 33-63: the entries one line adds
ParseLine(line) ==
  LET trimmed == Trim(line) IN
  IF trimmed = <<>> \/ Head(trimmed) = "#"
  THEN <<>>
  ELSE LET firstEqualIndex == IndexOf(trimmed, "=") IN
       IF firstEqualIndex = -1
       THEN <<>>
       ELSE LET k == Trim(Substring(trimmed, 0, firstEqualIndex))
                value == Trim(SubstringFrom(trimmed, firstEqualIndex + 1))
                colonIndex == ColonIndex(value)
            IN IF colonIndex = -1
               THEN <<>>
               ELSE << [key |-> k,
                        iv |-> Substring(value, 0, colonIndex),
                        ciphertext |-> SubstringFrom(value, colonIndex + 1)] >>

RECURSIVE ParseLines(_)
ParseLines(lines) ==
  IF lines = <<>> THEN <<>>
  ELSE ParseLine(Head(lines)) \o ParseLines(Tail(lines))

\* parseEncryptedEnvContent(content)
parseEncryptedEnvContent(content) == ParseLines(Split(content, LF))

\* ------------------------------------------------------------ lib/crypto.ts
\* PBKDF2 is deterministic and, for the model's purposes, injective.
DeriveKey(passphrase, salt) == <<passphrase, salt>>

\* AES-GCM: the ciphertext (with its tag) is determined by key, iv, plaintext.
Ciphertext(k, iv, plaintext) == [key |-> k, iv |-> iv, pt |-> plaintext]

\* a generator that yields the same bytes on every call
getRandomValuesStuck == FirstFreshIv

\* crypto.getRandomValues(new Uint8Array(IV_LENGTH)), called by encrypt (and
\* by nothing else): a value it has not yielded before
getRandomValues == nextIv

\* encrypt(plaintext, key) with the iv the random generator yields
Encrypt(plaintext, k, iv) ==
  [iv |-> iv, ciphertext |-> Ciphertext(k, iv, plaintext)]

\* The error crypto.subtle.decrypt rejects with when the tag does not verify;
\* decrypt() does not catch or wrap it. Engines differ in its message text,
\* none of them says "Incorrect passphrase".
OperationError == [kind |-> "DOMException", message |-> "OperationError"]

\* decrypt(iv, ciphertext, key): the tag verifies only under the key and iv
\* the ciphertext was made with.
DecryptOk(iv, ct, k) == ct.key = k /\ ct.iv = iv
Decrypt(iv, ct, k) == ct.pt

\* -------------------------------------------------------------- errors
IncorrectPassphrase == [kind |-> "Error", message |-> "Incorrect passphrase"]
NoSalt == [kind |-> "Error", message |-> "No encryption salt found"]
StorageError == [kind |-> "PostgrestError", message |-> "storage failure"]
NoError == [kind |-> "none", message |-> ""]

\* handleUnlockError(error)
handleUnlockError(error) ==
  IF error.kind \in {"Error", "DOMException"}
  THEN IF error.message = "Incorrect passphrase"
       THEN "Incorrect passphrase. Please try again."
       ELSE error.message
  ELSE "An unexpected error occurred. Please try again."

\* ---------------------------------------------------------------- profile
NoCanary ==
  [encryption_salt |-> Salt, test_iv |-> NullIv, test_ciphertext |-> NullCt]
\* no row returned
NoProfile ==
  [encryption_salt |-> "", test_iv |-> NullIv, test_ciphertext |-> NullCt]
NoBlob == [iv |-> NullIv, ciphertext |-> NullCt]

\* an update that also writes a new encryption_salt
WithCanaryResalted(p, b) ==
  [p EXCEPT !.test_iv = b.iv, !.test_ciphertext = b.ciphertext,
            !.encryption_salt = "salt1"]

\* the row after update({test_iv, test_ciphertext}), lines 75-78
WithCanary(p, b) ==
  [p EXCEPT !.test_iv = b.iv, !.test_ciphertext = b.ciphertext]

\* the truthiness tests of lines 54 and 71
HasTestPair(p) == p.test_iv # NullIv /\ p.test_ciphertext # NullCt
HasTestCiphertext(p) == p.test_ciphertext # NullCt

InitialProfiles ==
  { NoCanary,
    WithCanary(NoCanary, Encrypt(UNLOCK_OK, DeriveKey("p", Salt), CanaryIv0)),
    WithCanary(NoCanary, Encrypt(UNLOCK_PADDED, DeriveKey("p", Salt), CanaryIv0)) }

\* Rows the client never writes but the table can hold: test_iv and
\* test_ciphertext are two nullable columns with no constraint between them
\* (schema reference, part_000:3-9).
PartialProfiles ==
  { [NoCanary EXCEPT !.test_ciphertext =
                        Ciphertext(DeriveKey("p", Salt), CanaryIv0, UNLOCK_OK)],
    [NoCanary EXCEPT !.test_iv = CanaryIv0] }

\* ------------------------------------------------------------- the session
InFlight(c) == pc[c] \notin {"idle", "done", "failed"}

NoAutoLock == [cause |-> "none", idle |-> 0]

\* the inactivity effect without the function it returns: nothing clears
\* the timeout when isUnlocked turns false
InactivityEffectNoCleanup(u) ==
  IF u = isUnlocked \/ ~u
  THEN UNCHANGED timerVars
  ELSE /\ timerArmed' = TRUE
       /\ elapsed' = 0

\* The inactivity effect (lines 153-182) runs when isUnlocked changes: its
\* cleanup clears the timeout, and when isUnlocked is true its body calls
\* resetTimer(). u is the value isUnlocked takes.
InactivityEffect(u) ==
  IF u = isUnlocked
  THEN UNCHANGED timerVars
  ELSE /\ timerArmed' = u
       /\ elapsed' = 0

\* decryptedContent of the env-file details view: null, or a string
NoContent == <<>>

\* The effect of EnvFileDetailsClient (env-file-details-client.tsx:99-106),
\* run after a render in which isUnlocked, cryptoKey or currentEnvFile takes
\* the values u, k, file: decryptContent() starts a decrypt with the key and
\* the payload of that render, or decryptedContent is set to null. v is the
\* view's state in that render.
DecryptEffect(v, k, u, file) ==
  IF u /\ k # NullKey
  THEN [v EXCEPT !.pending = @ \cup {[key |-> k, payload |-> file]}]
  ELSE [v EXCEPT !.decryptedContent = NoContent]

\* the same for the render after setCryptoKey(k); setIsUnlocked(u)
ViewEffect(k, u) ==
  IF view.mounted /\ <<k, u>> # <<cryptoKey, isUnlocked>>
  THEN view' = DecryptEffect(view, k, u, envFile)
  ELSE UNCHANGED view

\* setIsUnlocked(u) alone: the key is left as it is
SetSessionFlagOnly(k, u) ==
  /\ UNCHANGED cryptoKey
  /\ isUnlocked' = u
  /\ InactivityEffect(u)
  /\ ViewEffect(cryptoKey, u)
  /\ sinceActivity' = IF u = isUnlocked THEN sinceActivity ELSE 0

\* setCryptoKey(k); setIsUnlocked(u), and the effects of the render they cause
SetSession(k, u) ==
  /\ cryptoKey' = k
  /\ isUnlocked' = u
  /\ InactivityEffect(u)
  /\ ViewEffect(k, u)
  /\ sinceActivity' = IF u = isUnlocked THEN sinceActivity ELSE 0

\* lock() that clears the flag and keeps the key
lockKeepsKey == SetSession(cryptoKey, FALSE)

\* lock(), lines 101-105
lock == SetSession(NullKey, FALSE)

\* the promise of call c settles and its locals go out of scope
Settle(c, state, e) ==
  /\ pc' = [pc EXCEPT ![c] = state]
  /\ err' = [err EXCEPT ![c] = e]
  /\ pass' = [pass EXCEPT ![c] = "p"]
  /\ snap' = [snap EXCEPT ![c] = NoProfile]
  /\ key' = [key EXCEPT ![c] = NullKey]
  /\ blob' = [blob EXCEPT ![c] = NoBlob]

\* the catch block of unlock, lines 90-98: toast and rethrow
Reject(c, e) == Settle(c, "failed", e)

\* unlock returns, line 99
Resolve(c) == Settle(c, "done", NoError)

\* call c goes on to its next await
Await(c, state) ==
  /\ pc' = [pc EXCEPT ![c] = state]
  /\ UNCHANGED <<pass, err>>

\* ------------------------------------------------------------------ unlock
\* what an unlock step leaves alone besides the session and the profile
UnlockFrame ==
  /\ UNCHANGED <<hidden, autoLock>>
  /\ UNCHANGED checkVars
  /\ UNCHANGED fieldVars
  /\ UNCHANGED pureVars

\* unlock(passphrase) up to its first await: the select is sent (lines 37-44).
\* Call frames are interchangeable; a new call takes the lowest free one.
\* The call comes from a form's submit handler (unlock-dialog.tsx:28-34,
\* app-footer.tsx:153), an event of a document that is visible.
UnlockStart(c, p) ==
  /\ pc[c] = "idle"
  /\ ~hidden
  /\ \A d \in Calls : d < c => pc[d] # "idle"
  /\ pc' = [pc EXCEPT ![c] = "select"]
  /\ pass' = [pass EXCEPT ![c] = p]
  /\ lockedDuring' = lockedDuring \ {c}
  /\ UNCHANGED <<snap, key, blob, err>>
  /\ UNCHANGED <<profile, cryptoKey, isUnlocked, isPassphraseSetup, ivVars>>
  /\ UNCHANGED timerVars
  /\ UNCHANGED view
  /\ UNCHANGED sinceActivity
  /\ UnlockFrame

\* the select answers (lines 41-51): error, no salt, or deriveKey is started
UnlockSelectDone(c) ==
  /\ pc[c] = "select"
  /\ \E ok \in BOOLEAN :
       IF ~ok
       THEN Reject(c, StorageError)
       ELSE IF profile.encryption_salt = ""
       THEN Reject(c, NoSalt)
       ELSE /\ Await(c, "derive")
            /\ snap' = [snap EXCEPT ![c] = profile]
            /\ UNCHANGED <<key, blob>>
  /\ UNCHANGED <<profile, cryptoKey, isUnlocked, isPassphraseSetup, ivVars,
                 lockedDuring>>
  /\ UNCHANGED timerVars
  /\ UNCHANGED view
  /\ UNCHANGED sinceActivity
  /\ UnlockFrame

\* deriveKey resolves (lines 51-72). With a test pair the canary decrypt is
\* started; without one the key is stored at once and, when there is no
\* test_ciphertext, encrypt("UNLOCK_OK") is started (it draws its iv on call).
UnlockDeriveDone(c) ==
  /\ pc[c] = "derive"
  /\ LET k == DeriveKey(pass[c], snap[c].encryption_salt) IN
     IF HasTestPair(snap[c])
     THEN /\ Await(c, "decrypt")
          /\ key' = [key EXCEPT ![c] = k]
          /\ UNCHANGED <<snap, blob>>
          /\ UNCHANGED <<cryptoKey, isUnlocked, ivVars>>
          /\ UNCHANGED timerVars
          /\ UNCHANGED view
          /\ UNCHANGED sinceActivity
     ELSE /\ SetSession(k, TRUE)
          /\ IF ~HasTestCiphertext(snap[c])
             THEN /\ nextIv <= MaxIv
                  /\ Await(c, "encrypt")
                  /\ key' = [key EXCEPT ![c] = k]
                  /\ blob' = [blob EXCEPT ![c] =
                                Encrypt(UNLOCK_OK, k, getRandomValues)]
                  /\ usedIvs' = usedIvs \cup {getRandomValues}
                  /\ nextIv' = nextIv + 1
                  /\ UNCHANGED snap
             ELSE /\ Resolve(c)
                  /\ UNCHANGED ivVars
  /\ UNCHANGED <<profile, isPassphraseSetup, lockedDuring>>
  /\ UnlockFrame

\* unlock storing the key before the canary is checked
UnlockDecryptDoneStoresFirst(c) ==
  /\ pc[c] = "decrypt"
  /\ SetSession(key[c], TRUE)
  /\ IF ~DecryptOk(snap[c].test_iv, snap[c].test_ciphertext, key[c])
     THEN Reject(c, OperationError)
     ELSE IF Decrypt(snap[c].test_iv, snap[c].test_ciphertext, key[c]) # UNLOCK_OK
     THEN Reject(c, IncorrectPassphrase)
     ELSE Resolve(c)
  /\ UNCHANGED <<profile, isPassphraseSetup, ivVars, lockedDuring>>
  /\ UnlockFrame

\* the canary decrypt settles (lines 55-68, 87-89)
UnlockDecryptDone(c) ==
  /\ pc[c] = "decrypt"
  /\ IF ~DecryptOk(snap[c].test_iv, snap[c].test_ciphertext, key[c])
     THEN /\ Reject(c, OperationError)
          /\ UNCHANGED <<cryptoKey, isUnlocked>>
          /\ UNCHANGED timerVars
          /\ UNCHANGED view
          /\ UNCHANGED sinceActivity
     ELSE IF Decrypt(snap[c].test_iv, snap[c].test_ciphertext, key[c]) # UNLOCK_OK
     THEN /\ Reject(c, IncorrectPassphrase)
          /\ UNCHANGED <<cryptoKey, isUnlocked>>
          /\ UNCHANGED timerVars
          /\ UNCHANGED view
          /\ UNCHANGED sinceActivity
     ELSE /\ SetSession(key[c], TRUE)
          /\ Resolve(c)
  /\ UNCHANGED <<profile, isPassphraseSetup, ivVars, lockedDuring>>
  /\ UnlockFrame

\* encrypt and auth.getUser() have resolved, which changes nothing another
\* continuation can see, and the profile store handles the update (lines
\* 72-79): it writes test_iv and test_ciphertext, or it fails
UnlockUpdateApply(c) ==
  /\ pc[c] = "encrypt"
  /\ \E ok \in BOOLEAN :
       IF ok
       THEN /\ profile' = WithCanary(profile, blob[c])
            /\ Await(c, "updated")
       ELSE /\ Await(c, "updateError")
            /\ UNCHANGED profile
  /\ UNCHANGED <<snap, key, blob>>
  /\ UNCHANGED <<cryptoKey, isUnlocked, isPassphraseSetup, ivVars, lockedDuring>>
  /\ UNCHANGED timerVars
  /\ UNCHANGED view
  /\ UNCHANGED sinceActivity
  /\ UnlockFrame

\* the update's answer arrives (lines 81-86)
UnlockUpdateDone(c) ==
  /\ pc[c] \in {"updated", "updateError"}
  /\ IF pc[c] = "updateError"
     THEN /\ Reject(c, StorageError)
          /\ UNCHANGED isPassphraseSetup
     ELSE /\ isPassphraseSetup' = TRUE
          /\ Resolve(c)
  /\ UNCHANGED <<profile, cryptoKey, isUnlocked, ivVars, lockedDuring>>
  /\ UNCHANGED timerVars
  /\ UNCHANGED view
  /\ UNCHANGED sinceActivity
  /\ UnlockFrame

\* the caller has seen the promise settle (unlock-dialog.tsx:33-45)
UnlockReturn(c) ==
  /\ pc[c] \in {"done", "failed"}
  /\ pc' = [pc EXCEPT ![c] = "idle"]
  /\ err' = [err EXCEPT ![c] = NoError]
  /\ lockedDuring' = lockedDuring \ {c}
  /\ UNCHANGED <<pass, snap, key, blob>>
  /\ UNCHANGED <<profile, cryptoKey, isUnlocked, isPassphraseSetup, ivVars>>
  /\ UNCHANGED timerVars
  /\ UNCHANGED view
  /\ UNCHANGED sinceActivity
  /\ UnlockFrame

\* the user presses Lock (PassphraseStatusAlert, line 65)
Lock ==
  /\ lock
  /\ UNCHANGED callVars
  /\ UNCHANGED <<profile, isPassphraseSetup, ivVars, hidden, lockedDuring,
                 autoLock>>
  /\ UNCHANGED checkVars
  /\ UNCHANGED fieldVars
  /\ UNCHANGED pureVars

\* the same, with the calls it overtakes noted in lockedDuring
LockObserved ==
  /\ lock
  /\ lockedDuring' = {c \in Calls : InFlight(c)}
  /\ UNCHANGED callVars
  /\ UNCHANGED <<profile, isPassphraseSetup, ivVars, hidden, autoLock>>
  /\ UNCHANGED checkVars
  /\ UNCHANGED fieldVars
  /\ UNCHANGED pureVars

\* ---------------------------------------------------- checkPassphraseSetup
\* the profile store answers the mount-time select (lines 114-117)
CheckSelect ==
  /\ checkPc = "select"
  /\ \E ok \in BOOLEAN :
       IF ok
       THEN /\ checkSnap' = profile
            /\ checkPc' = "answer"
       ELSE /\ checkPc' = "error"
            /\ UNCHANGED checkSnap
  /\ UNCHANGED isLoading
  /\ UNCHANGED callVars
  /\ UNCHANGED <<profile, cryptoKey, isUnlocked, isPassphraseSetup, ivVars,
                 hidden, lockedDuring>>
  /\ UNCHANGED timerVars
  /\ UNCHANGED view
  /\ UNCHANGED historyVars
  /\ UNCHANGED fieldVars
  /\ UNCHANGED pureVars

\* the answer arrives (lines 119-132)
CheckDone ==
  /\ checkPc \in {"answer", "error"}
  /\ IF checkPc = "error"
     THEN UNCHANGED isPassphraseSetup
     ELSE isPassphraseSetup' = HasTestCiphertext(checkSnap)
  /\ isLoading' = FALSE
  /\ checkPc' = "done"
  /\ UNCHANGED checkSnap
  /\ UNCHANGED callVars
  /\ UNCHANGED <<profile, cryptoKey, isUnlocked, ivVars, hidden, lockedDuring>>
  /\ UNCHANGED timerVars
  /\ UNCHANGED view
  /\ UNCHANGED historyVars
  /\ UNCHANGED fieldVars
  /\ UNCHANGED pureVars

\* PassphraseStatusAlert (part_012:11-70): the control the banner offers
PassphraseStatusAlert ==
  IF ~isPassphraseSetup THEN "Set Up Passphrase"
  ELSE IF ~isUnlocked THEN "Unlock"
  ELSE "Lock"

\* ---------------------------------------------------------- auto-lock
\* handleVisibilityChange that leaves the lock to the inactivity timeout
\* unless that is already due
handleVisibilityChangeWhenDue ==
  /\ hidden' = ~hidden
  /\ IF hidden' /\ isUnlocked /\ elapsed = INACTIVITY_TICKS
     THEN /\ lock
          /\ autoLock' = [cause |-> "hidden", idle |-> sinceActivity]
     ELSE /\ UNCHANGED <<cryptoKey, isUnlocked>>
          /\ UNCHANGED timerVars
          /\ UNCHANGED view
          /\ UNCHANGED historyVars
  /\ UNCHANGED callVars
  /\ UNCHANGED <<profile, isPassphraseSetup, ivVars, lockedDuring>>
  /\ UNCHANGED checkVars
  /\ UNCHANGED fieldVars
  /\ UNCHANGED pureVars

\* handleVisibilityChange (lines 140-144) on a visibilitychange event
handleVisibilityChange ==
  /\ hidden' = ~hidden
  /\ IF hidden' /\ isUnlocked
     THEN /\ lock
          /\ autoLock' = [cause |-> "hidden", idle |-> sinceActivity]
     ELSE /\ UNCHANGED <<cryptoKey, isUnlocked>>
          /\ UNCHANGED timerVars
          /\ UNCHANGED view
          /\ UNCHANGED historyVars
  /\ UNCHANGED callVars
  /\ UNCHANGED <<profile, isPassphraseSetup, ivVars, lockedDuring>>
  /\ UNCHANGED checkVars
  /\ UNCHANGED fieldVars
  /\ UNCHANGED pureVars

\* resetTimer without the clearTimeout: the earlier timeout stays pending
resetTimerNoClear ==
  /\ timerArmed' = TRUE
  /\ UNCHANGED elapsed

\* resetTimer (lines 158-166): clearTimeout, then a new setTimeout
resetTimer ==
  /\ timerArmed' = TRUE
  /\ elapsed' = 0

\* mousedown, keydown, scroll or touchstart (lines 169-172); the listeners
\* exist while the inactivity effect is mounted
ActivitySignal ==
  /\ isUnlocked
  /\ resetTimer
  /\ sinceActivity' = 0
  /\ UNCHANGED <<autoLock, view>>
  /\ UNCHANGED callVars
  /\ UNCHANGED <<profile, cryptoKey, isUnlocked, isPassphraseSetup, ivVars,
                 hidden, lockedDuring>>
  /\ UNCHANGED checkVars
  /\ UNCHANGED fieldVars
  /\ UNCHANGED pureVars

\* ten minutes pass while a timeout is pending; the timeout fires no later
\* than it is due
Tick ==
  /\ timerArmed
  /\ elapsed < INACTIVITY_TICKS
  /\ elapsed' = elapsed + 1
  /\ sinceActivity' = sinceActivity + 1
  /\ UNCHANGED <<timerArmed, autoLock, view>>
  /\ UNCHANGED callVars
  /\ UNCHANGED <<profile, cryptoKey, isUnlocked, isPassphraseSetup, ivVars,
                 hidden, lockedDuring>>
  /\ UNCHANGED checkVars
  /\ UNCHANGED fieldVars
  /\ UNCHANGED pureVars

\* the timeout callback (lines 161-163)
TimeoutFire ==
  /\ timerArmed
  /\ elapsed = INACTIVITY_TICKS
  /\ lock
  /\ autoLock' = [cause |-> "timeout", idle |-> sinceActivity]
  /\ UNCHANGED callVars
  /\ UNCHANGED <<profile, isPassphraseSetup, ivVars, hidden, lockedDuring>>
  /\ UNCHANGED checkVars
  /\ UNCHANGED fieldVars
  /\ UNCHANGED pureVars

\* --------------------------------------------- handlers that use the key
Idle == [pc |-> "idle", key |-> NullKey, payload |-> NoBlob, pt |-> ""]

\* the env_vars row DownloadControls is given, and the env file's first content
EnvVar0 == Encrypt("A=1", DeriveKey("p", Salt), EnvVarIv0)
EnvFile0 == Encrypt("A=1", DeriveKey("p", Salt), EnvFileIv0)

\* what each handler encrypts: formData.content, editedContent
Content(h) == IF h = "AddEnvDialog" THEN "A=1" ELSE "B=2"

\* only the dialog checks for a key
RefusesOnlyInDialog(h) ==
  h = "AddEnvDialog" /\ (cryptoKey = NullKey \/ ~isUnlocked)

\* the guard each handler opens with: AddEnvDialog.handleSubmit (line 72),
\* handleSaveEdit (line 176), DownloadControls.handleDownloadEnv (line 54)
Refuses(h) ==
  IF h = "AddEnvDialog"
  THEN cryptoKey = NullKey \/ ~isUnlocked
  ELSE cryptoKey = NullKey

FieldFrame ==
  /\ UNCHANGED callVars
  /\ UNCHANGED <<profile, cryptoKey, isUnlocked, isPassphraseSetup, hidden,
                 lockedDuring>>
  /\ UNCHANGED checkVars
  /\ UNCHANGED timerVars
  /\ UNCHANGED historyVars
  /\ UNCHANGED pureVars

\* the handler is called: it refuses, or it calls encrypt (which draws its
\* iv) or decrypt with the cryptoKey of the render it belongs to
FieldInvoke(h) ==
  /\ field[h].pc = "idle"
  /\ IF Refuses(h)
     THEN /\ field' = [field EXCEPT ![h].pc = "refused"]
          /\ UNCHANGED ivVars
     ELSE IF h = "DownloadEnv"
     THEN /\ field' = [field EXCEPT ![h].pc = "crypto", ![h].key = cryptoKey,
                                    ![h].payload = EnvVar0]
          /\ UNCHANGED ivVars
     ELSE /\ nextIv <= MaxIv
          /\ field' = [field EXCEPT ![h].pc = "crypto", ![h].key = cryptoKey,
                                    ![h].payload.iv = getRandomValues]
          /\ usedIvs' = usedIvs \cup {getRandomValues}
          /\ nextIv' = nextIv + 1
  /\ UNCHANGED <<envFile, view>>
  /\ FieldFrame

\* encrypt or decrypt settles; an encrypting handler then awaits its server
\* action (addEnvFile, updateEnvFile), which stores the payload or fails
FieldSettle(h) ==
  /\ field[h].pc = "crypto"
  /\ IF h = "DownloadEnv"
     THEN /\ IF DecryptOk(field[h].payload.iv, field[h].payload.ciphertext,
                          field[h].key)
             THEN field' = [field EXCEPT ![h].pc = "done",
                              ![h].pt = Decrypt(field[h].payload.iv,
                                                field[h].payload.ciphertext,
                                                field[h].key)]
             ELSE field' = [field EXCEPT ![h].pc = "error"]
          /\ UNCHANGED <<envFile, view>>
     ELSE \E ok \in BOOLEAN :
            LET made == Encrypt(Content(h), field[h].key, field[h].payload.iv) IN
            IF ok
            THEN /\ field' = [field EXCEPT ![h].pc = "done", ![h].payload = made]
                 /\ IF h = "SaveEdit"
                    THEN /\ envFile' = made
                         /\ view' = IF view.mounted
                                    THEN DecryptEffect(
                                           [view EXCEPT !.decryptedContent =
                                                          <<Content(h)>>],
                                           cryptoKey, isUnlocked, made)
                                    ELSE view
                    ELSE UNCHANGED <<envFile, view>>
            ELSE /\ field' = [field EXCEPT ![h].pc = "error"]
                 /\ UNCHANGED <<envFile, view>>
  /\ UNCHANGED ivVars
  /\ FieldFrame

\* the handler's finally block has run and its result has been used
FieldDismiss(h) ==
  /\ field[h].pc \in {"done", "error", "refused"}
  /\ field' = [field EXCEPT ![h] = Idle]
  /\ UNCHANGED <<envFile, ivVars, view>>
  /\ FieldFrame

FieldStep(h) ==
  \/ FieldInvoke(h)
  \/ FieldSettle(h)
  \/ FieldDismiss(h)

\* --------------------------------------------- the env-file details view
\* the page is not open
ViewClosed == [mounted |-> FALSE, decryptedContent |-> NoContent, pending |-> {}]

\* the session, which a step of the view, of a parser run or of a codec run
\* leaves alone
SessionFrame ==
  /\ UNCHANGED <<profile, cryptoKey, isUnlocked, isPassphraseSetup, hidden,
                 lockedDuring>>
  /\ UNCHANGED callVars
  /\ UNCHANGED checkVars
  /\ UNCHANGED timerVars
  /\ UNCHANGED historyVars
  /\ UNCHANGED fieldVars
  /\ UNCHANGED ivVars

\* EnvFileDetailsClient mounts: decryptedContent starts as null (line 72) and
\* the effect runs for the first time
ViewMount ==
  /\ ~view.mounted
  /\ view' = DecryptEffect([ViewClosed EXCEPT !.mounted = TRUE],
                           cryptoKey, isUnlocked, envFile)
  /\ SessionFrame
  /\ UNCHANGED pureVars

\* decryptContent with a catch block that also drops the session's key
ViewDecryptSettleDropsKey ==
  /\ \E d \in view.pending :
       /\ view' = [view EXCEPT
                     !.pending = @ \ {d},
                     !.decryptedContent =
                        IF DecryptOk(d.payload.iv, d.payload.ciphertext, d.key)
                        THEN <<Decrypt(d.payload.iv, d.payload.ciphertext, d.key)>>
                        ELSE NoContent]
       /\ cryptoKey' = IF DecryptOk(d.payload.iv, d.payload.ciphertext, d.key)
                       THEN cryptoKey
                       ELSE NullKey
  /\ UNCHANGED <<profile, isUnlocked, isPassphraseSetup, hidden, lockedDuring>>
  /\ UNCHANGED callVars
  /\ UNCHANGED checkVars
  /\ UNCHANGED timerVars
  /\ UNCHANGED historyVars
  /\ UNCHANGED fieldVars
  /\ UNCHANGED ivVars
  /\ UNCHANGED pureVars

\* decryptContent after its await (lines 108-126): a decrypt it started
\* settles, and decryptedContent is set to the plaintext, or to null when the
\* decrypt rejected
ViewDecryptSettle ==
  /\ \E d \in view.pending :
       view' = [view EXCEPT
                  !.pending = @ \ {d},
                  !.decryptedContent =
                     IF DecryptOk(d.payload.iv, d.payload.ciphertext, d.key)
                     THEN <<Decrypt(d.payload.iv, d.payload.ciphertext, d.key)>>
                     ELSE NoContent]
  /\ SessionFrame
  /\ UNCHANGED pureVars

\* ------------------------------------------- a run of export and parser
\* no run
ParserIdle ==
  [pc |-> "idle", from |-> "none", envVars |-> <<>>, content |-> <<>>,
   entries |-> <<>>, verdicts |-> <<>>]

\* the files the parser is given
Files == UNION {[1..n -> {"K", "=", ":", "#", " ", LF}] : n \in 0..MaxText}

\* the lists the export is given; keys, ivs and ciphertexts of their entries:
\* base64 with and without padding, keys with a colon, a "#" and a "="
EntryLists ==
  UNION {[1..n -> [key : { <<"K">>, <<"K", ":">>, <<"#">>, <<"K", "=">> },
                   iv : { <<"Q", "Q", "=", "=">>, <<"Q", "U", "J", "D">> },
                   ciphertext : { <<"Q", "U", "I", "=">>, <<"Q", "Q">> }]] :
           n \in 0..MaxEntries}

ParserInputs ==
  {[ParserIdle EXCEPT !.pc = "content", !.from = "file", !.content = f] :
     f \in Files}
  \cup
  {[ParserIdle EXCEPT !.pc = "envVars", !.from = "export", !.envVars = l] :
     l \in EntryLists}

\* downloadAllEncryptedEnv is called with the list
ExportEnv ==
  /\ parser.pc = "envVars"
  /\ LET r == downloadAllEncryptedEnv(parser.envVars) IN
     parser' = IF r.ok
               THEN [parser EXCEPT !.pc = "content", !.content = r.content]
               ELSE [parser EXCEPT !.pc = "thrown"]
  /\ SessionFrame
  /\ UNCHANGED <<codec, view>>

\* parseEncryptedEnvContent is called with the text
ParseContent ==
  /\ parser.pc = "content"
  /\ parser' = [parser EXCEPT !.pc = "parsed",
                   !.entries = parseEncryptedEnvContent(parser.content)]
  /\ SessionFrame
  /\ UNCHANGED <<codec, view>>

\* the entries read are validated, by isValidEncryptedEntry and by the test
\* the table and the exports use (env-variable-table.tsx:67,
\* download-utils.ts:74)
ValidateEntries ==
  /\ parser.pc = "parsed"
  /\ parser.entries # <<>>
  /\ parser.verdicts = <<>>
  /\ parser' =
       [parser EXCEPT
          !.verdicts =
             [i \in 1..Len(parser.entries) |->
                [entry |-> isValidEncryptedEntry(parser.entries[i]),
                 base64 |-> /\ isValidBase64(parser.entries[i].iv)
                            /\ isValidBase64(parser.entries[i].ciphertext)]]]
  /\ SessionFrame
  /\ UNCHANGED <<codec, view>>

\* ------------------------------ a run of encrypt, an export and decrypt
\* no run
CodecIdle ==
  [pc |-> "idle", from |-> "none", plaintext |-> <<>>, key |-> NullKey,
   iv |-> <<>>, payload |-> [iv |-> <<>>, ciphertext |-> <<>>],
   format |-> "none", text |-> <<>>, decryptKey |-> NullKey,
   result |-> [kind |-> "none", value |-> <<>>, aead |-> FALSE]]

\* the plaintexts, keys and random ivs of the runs
Plaintexts ==
  UNION {[1..n -> {LetterA, 233, ByteOrderMark}] : n \in 0..MaxPlain}
Keys == {DeriveKey(p, Salt) : p \in Passphrases}
IvBytes(n) == [i \in 1..IV_LENGTH |-> (n * i) % 256]

\* payloads handed to decrypt that encrypt did not return as they are: a
\* payload of encrypt with the padding taken off, an empty iv, one character,
\* a character outside the alphabet
SamplePayload == encrypt(<<LetterA, LetterA>>, DeriveKey("p", Salt), IvBytes(1))

CodecInputs ==
  {[CodecIdle EXCEPT !.pc = "plaintext", !.from = "encrypt", !.plaintext = str,
                     !.key = k, !.iv = iv, !.decryptKey = k2] :
     str \in Plaintexts, k \in Keys, iv \in {IvBytes(1), IvBytes(77)},
     k2 \in Keys}
  \cup
  {[CodecIdle EXCEPT !.pc = "payload", !.from = "given",
                     !.payload = [iv |-> i, ciphertext |-> c],
                     !.decryptKey = k2] :
     i \in { SamplePayload.iv, <<>>, <<"Q">>, <<"Q", "Q">>, <<":">> },
     c \in { SamplePayload.ciphertext,
             SelectSeq(SamplePayload.ciphertext, LAMBDA x : x # "="),
             <<":">> },
     k2 \in Keys}

\* the entry the export functions are given for the payload
CodecEntry ==
  [key |-> <<"K">>, iv |-> codec.payload.iv,
   ciphertext |-> codec.payload.ciphertext]

\* encrypt(plaintext, key) is called
CodecEncrypt ==
  /\ codec.pc = "plaintext"
  /\ codec' = [codec EXCEPT !.pc = "payload",
                  !.payload = encrypt(codec.plaintext, codec.key, codec.iv)]
  /\ SessionFrame
  /\ UNCHANGED <<parser, view>>

\* the payload is exported as JSON
CodecExportJson ==
  /\ codec.pc = "payload"
  /\ codec.format = "none"
  /\ LET r == downloadSingleEncrypted(CodecEntry) IN
     codec' = IF r.ok
              THEN [codec EXCEPT !.pc = "file", !.format = "json",
                                 !.text = r.content]
              ELSE [codec EXCEPT !.pc = "thrown"]
  /\ SessionFrame
  /\ UNCHANGED <<parser, view>>

\* the payload is exported as a line KEY=iv:ciphertext
CodecExportEnv ==
  /\ codec.pc = "payload"
  /\ codec.format = "none"
  /\ LET r == downloadAllEncryptedEnv(<<CodecEntry>>) IN
     codec' = IF r.ok
              THEN [codec EXCEPT !.pc = "file", !.format = "env",
                                 !.text = r.content]
              ELSE [codec EXCEPT !.pc = "thrown"]
  /\ SessionFrame
  /\ UNCHANGED <<parser, view>>

\* the exported file is read back
CodecImport ==
  /\ codec.pc = "file"
  /\ LET entries == IF codec.format = "json"
                    THEN <<JsonParse(codec.text)>>
                    ELSE parseEncryptedEnvContent(codec.text)
     IN codec' = IF entries = <<>>
                 THEN [codec EXCEPT !.pc = "lost"]
                 ELSE [codec EXCEPT !.pc = "payload",
                         !.payload = [iv |-> entries[1].iv,
                                      ciphertext |-> entries[1].ciphertext]]
  /\ SessionFrame
  /\ UNCHANGED <<parser, view>>

\* decrypt(iv, ciphertext, key) is called on the payload
CodecDecrypt ==
  /\ codec.pc = "payload"
  /\ codec' = [codec EXCEPT !.pc = "decrypted",
                  !.result = decrypt(codec.payload.iv, codec.payload.ciphertext,
                                     codec.decryptKey)]
  /\ SessionFrame
  /\ UNCHANGED <<parser, view>>

\* ----------------------------------------------------------- specification
\* The state once SecretProvider is mounted: the useState defaults (lines
\* 32-35), and checkPassphraseSetup suspended at its select (lines 109-117).
SessionInit ==
  /\ profile \in InitialProfiles \cup PartialProfiles
  /\ cryptoKey = NullKey
  /\ isUnlocked = FALSE
  /\ isPassphraseSetup = FALSE
  /\ isLoading = TRUE
  /\ pc = [c \in Calls |-> "idle"]
  /\ pass = [c \in Calls |-> "p"]
  /\ snap = [c \in Calls |-> NoProfile]
  /\ key = [c \in Calls |-> NullKey]
  /\ blob = [c \in Calls |-> NoBlob]
  /\ err = [c \in Calls |-> NoError]
  /\ checkPc = "select"
  /\ checkSnap = NoProfile
  /\ nextIv = FirstFreshIv
  /\ lockedDuring = {}
  /\ timerArmed = FALSE
  /\ elapsed = 0
  /\ hidden = FALSE
  /\ sinceActivity = 0
  /\ autoLock = NoAutoLock
  /\ field = [h \in Handlers |-> Idle]
  /\ envFile = EnvFile0
  /\ usedIvs = {CanaryIv0, EnvVarIv0, EnvFileIv0}
  /\ view = ViewClosed

\* The profile row is one the client wrote, or the one the sign-up trigger
\* made.
Init ==
  /\ SessionInit
  /\ profile \in InitialProfiles
  /\ parser = ParserIdle
  /\ codec = CodecIdle

UnlockStep(c) ==
  \/ \E p \in Passphrases : UnlockStart(c, p)
  \/ UnlockSelectDone(c)
  \/ UnlockDeriveDone(c)
  \/ UnlockDecryptDone(c)
  \/ UnlockUpdateApply(c)
  \/ UnlockUpdateDone(c)
  \/ UnlockReturn(c)

\* unlock calls and lock()
Next ==
  \/ \E c \in Calls : UnlockStep(c)
  \/ Lock

Spec == Init /\ [][Next]_vars

\* one unlock call at a time, and lock()
SeqNext ==
  \/ UnlockStep(1)
  \/ Lock

SpecSeq == Init /\ [][SeqNext]_vars

\* the same on every row the table can hold
RowInit ==
  /\ SessionInit
  /\ parser = ParserIdle
  /\ codec = CodecIdle

SpecRow == RowInit /\ [][SeqNext]_vars

\* one unlock call at a time, with the mount-time check
CheckNext ==
  \/ UnlockStep(1)
  \/ Lock
  \/ CheckSelect
  \/ CheckDone

SpecCheck == Init /\ [][CheckNext]_vars

\* one unlock call at a time, with the auto-lock triggers
AutoNext ==
  \/ UnlockStep(1)
  \/ Lock
  \/ handleVisibilityChange
  \/ ActivitySignal
  \/ Tick
  \/ TimeoutFire

SpecAuto == Init /\ [][AutoNext]_vars

\* one unlock call at a time, with the handlers that use the key
FieldNext ==
  \/ UnlockStep(1)
  \/ Lock
  \/ \E h \in Handlers : FieldStep(h)

SpecField == Init /\ [][FieldNext]_vars

\* unlock calls and lock(), with history of the calls each lock overtakes
StaleNext ==
  \/ \E c \in Calls : UnlockStep(c)
  \/ LockObserved

SpecStale == Init /\ [][StaleNext]_vars

\* one unlock call at a time, with the env-file details view and its editor
ViewNext ==
  \/ UnlockStep(1)
  \/ Lock
  \/ ViewMount
  \/ ViewDecryptSettle
  \/ FieldStep("SaveEdit")

SpecView == Init /\ [][ViewNext]_vars

\* the .env export and the parser, on every list and every file
ParseInit ==
  /\ SessionInit
  /\ profile = NoCanary
  /\ parser \in ParserInputs
  /\ codec = CodecIdle

ParseNext ==
  \/ ExportEnv
  \/ ParseContent
  \/ ValidateEntries

SpecParse == ParseInit /\ [][ParseNext]_vars

\* encrypt, the export formats and decrypt, on every plaintext and payload
CodecInit ==
  /\ SessionInit
  /\ profile = NoCanary
  /\ parser = ParserIdle
  /\ codec \in CodecInputs

CodecNext ==
  \/ CodecEncrypt
  \/ CodecExportJson
  \/ CodecExportEnv
  \/ CodecImport
  \/ CodecDecrypt

SpecCodec == CodecInit /\ [][CodecNext]_vars

\* ------------------------------------------------------------------ claims
\* The phase the session shows: Unlocked is the unlocked flag; while the flag
\* is false the session is Unlocking when an unlock call is in flight.
Phase ==
  IF isUnlocked THEN "Unlocked"
  ELSE IF \E c \in Calls : InFlight(c) THEN "Unlocking"
  ELSE "Locked"

\* call c takes a step
Steps(c) == pc'[c] # pc[c]

\* C1: an unlock call that lock() has overtaken never changes the key or the
\* unlocked flag afterwards; its late success is discarded.
C1_StaleUnlockDiscarded ==
  [][\A c \in lockedDuring : Steps(c) => UNCHANGED <<cryptoKey, isUnlocked>>]_vars

\* C2: when an unlock call rejects, the session is Locked and holds no key.
C2_FailedUnlockLeavesLocked ==
  [][\A c \in Calls :
       (pc'[c] = "failed" /\ pc[c] # "failed")
       => (~isUnlocked' /\ cryptoKey' = NullKey)]_vars

\* the profile p holds a canary that an unlock call of this run has written
Bootstrapped(p) == HasTestPair(p) /\ p.test_iv >= FirstFreshIv

\* C3: a first-time unlock that resolves has persisted a CanaryRecord, and it
\* rejects only on a storage failure; once the session is locked again, an
\* unlock that reads that canary resolves and unlocks when its passphrase
\* derives the canary's key, and otherwise rejects with "Incorrect
\* passphrase" and leaves the session Locked.
C3_CanaryBootstrapSequence ==
  [][\A c \in Calls :
       /\ (/\ pc[c] = "updated"
           /\ Steps(c))
          => (pc'[c] = "done" /\ Bootstrapped(profile'))
       /\ (/\ pc[c] \in {"encrypt", "updated", "updateError"}
           /\ pc'[c] = "failed")
          => err'[c] = StorageError
       /\ (/\ pc[c] = "decrypt"
           /\ Bootstrapped(snap[c])
           /\ ~isUnlocked
           /\ Steps(c))
          => IF snap[c].test_ciphertext.key
                  = DeriveKey(pass[c], snap[c].encryption_salt)
             THEN pc'[c] = "done" /\ isUnlocked'
             ELSE /\ pc'[c] = "failed"
                  /\ err'[c] = IncorrectPassphrase
                  /\ ~isUnlocked'
                  /\ cryptoKey' = NullKey]_vars

\* the profile call c read holds a test pair made under another key than
\* the one c's passphrase derives
ReadsForeignCanary(c, p) ==
  /\ HasTestPair(p)
  /\ p.test_ciphertext.key # DeriveKey(pass[c], p.encryption_salt)

\* C4: every step of an unlock call whose passphrase does not derive the key
\* of the canary it read leaves the profile, the key and the unlocked flag
\* as they are, draws no iv, and the call goes on only to reject.
C4_WrongPassphraseChangesNothing ==
  [][\A c \in Calls :
       (/\ Steps(c)
        /\ \/ pc[c] = "select" /\ ReadsForeignCanary(c, snap'[c])
           \/ pc[c] \in {"derive", "decrypt"} /\ ReadsForeignCanary(c, snap[c]))
       => /\ UNCHANGED <<profile, cryptoKey, isUnlocked, isPassphraseSetup, nextIv>>
          /\ pc'[c] \in {"derive", "decrypt", "failed"}]_vars

\* a call has rejected on a canary made under another key, nothing unlocked
C4_Witness ==
  \E c \in Calls :
    /\ pc[c] = "failed"
    /\ err[c] = OperationError
    /\ HasTestPair(profile)
    /\ ~isUnlocked
    /\ cryptoKey = NullKey

\* C5: an unlock that rejects at the canary check rejects with the one error
\* "Incorrect passphrase", whether the tag failed or the plaintext differed.
C5_OneErrorForBothCauses ==
  [][\A c \in Calls :
       (pc[c] = "decrypt" /\ pc'[c] = "failed")
       => /\ err'[c] = IncorrectPassphrase
          /\ handleUnlockError(err'[c])
               = "Incorrect passphrase. Please try again."]_vars

\* C6: lock() can run in every state; after it the key is absent, the flag
\* is false and no timeout is pending; run on a locked session it changes
\* nothing of the session.
C6_LockIdempotent ==
  /\ [](ENABLED Lock)
  /\ [][Lock =>
          /\ cryptoKey' = NullKey
          /\ ~isUnlocked'
          /\ ~timerArmed'
          /\ (cryptoKey = NullKey /\ ~isUnlocked)
               => UNCHANGED <<cryptoKey, isUnlocked, isPassphraseSetup,
                              profile, timerArmed, elapsed>>]_vars

\* an unlock call has resolved and the session has been locked since
C6_Witness ==
  \E c \in Calls : pc[c] = "done" /\ ~isUnlocked /\ cryptoKey = NullKey

\* C7: while Unlocked a timeout is pending that has run exactly as long as
\* the time since the last activity signal (or since the unlock), that time
\* never exceeds the timeout, and an inactivity lock has fired only a full
\* timeout after the last activity signal.
C7_InactivityAutoLock ==
  /\ isUnlocked =>
       /\ timerArmed
       /\ elapsed = sinceActivity
       /\ sinceActivity <= INACTIVITY_TICKS
  /\ (isUnlocked /\ sinceActivity = INACTIVITY_TICKS) => ENABLED TimeoutFire
  /\ autoLock.cause = "timeout" =>
       autoLock.idle = INACTIVITY_TICKS

\* the inactivity timeout has locked the session
C7_Witness ==
  /\ autoLock.cause = "timeout"
  /\ Phase = "Locked"
  /\ cryptoKey = NullKey

\* C8: the view becoming hidden while Unlocked locks the session in that
\* same step.
C8_HiddenLocksAtOnce ==
  [][(~hidden /\ hidden' /\ isUnlocked)
       => (~isUnlocked' /\ cryptoKey' = NullKey /\ ~timerArmed')]_vars

\* the hidden signal has locked the session before the timeout was due
C8_Witness ==
  /\ autoLock.cause = "hidden"
  /\ autoLock.idle < INACTIVITY_TICKS
  /\ hidden
  /\ ~isUnlocked
  /\ cryptoKey = NullKey

\* C9: a handler called while the session is not Unlocked refuses: it starts
\* no encrypt or decrypt, draws no iv and yields neither payload nor
\* plaintext; a handler that does start one holds the session's key.
C9_NoCryptoUnlessUnlocked ==
  [][\A h \in Handlers :
       (field[h].pc = "idle" /\ field'[h].pc # "idle")
       => IF Phase \in {"Locked", "Unlocking"}
          THEN /\ field'[h] = [Idle EXCEPT !.pc = "refused"]
               /\ UNCHANGED <<nextIv, envFile>>
          ELSE /\ field'[h].pc = "crypto"
               /\ field'[h].key = cryptoKey
               /\ cryptoKey # NullKey]_vars

\* a handler has refused and the session is not unlocked, an unlock call
\* being in flight
C9_Witness ==
  \E h \in Handlers :
    /\ field[h] = [Idle EXCEPT !.pc = "refused"]
    /\ Phase = "Unlocking"

\* C10: once the mount-time check has had its answer and applied it and no
\* unlock call is in flight, isPassphraseSetup tells whether the profile
\* holds a CanaryRecord.
C10_SetupFlagMatchesCanary ==
  (/\ checkPc = "done"
   /\ checkSnap # NoProfile
   /\ \A c \in Calls : ~InFlight(c))
  => (isPassphraseSetup <=> HasTestPair(profile))

C15_ExportParseRoundTrip ==
  LET l == parser.envVars
      KeyOk(k) == /\ k # <<>>
                  /\ \A i \in 1..Len(k) : k[i] \notin {"=", LF}
                  /\ ~IsSpace(k[1])
                  /\ ~IsSpace(k[Len(k)])
                  /\ k[1] # "#"
  IN (/\ parser.from = "export"
      /\ \A i \in 1..Len(l) : /\ KeyOk(l[i].key)
                              /\ isValidBase64(l[i].iv)
                              /\ isValidBase64(l[i].ciphertext))
     => /\ parser.pc \in {"envVars", "content", "parsed"}
        /\ parser.pc = "parsed" => parser.entries = l

\* two entries, one with a colon in its key and padding in its iv, have been
\* exported and parsed
C15_Witness ==
  /\ parser.pc = "parsed"
  /\ parser.from = "export"
  /\ Len(parser.envVars) = MaxEntries
  /\ \E i \in 1..MaxEntries :
       /\ parser.envVars[i].key = <<"K", ":">>
       /\ parser.envVars[i].iv = <<"Q", "Q", "=", "=">>
  /\ parser.entries = parser.envVars

\* C11: decrypt, given the key and the payload that encrypt returned for a
\* plaintext, returns exactly that plaintext, also when the payload went
\* through the JSON or the KEY=iv:ciphertext export and back.
C11_RoundTrip ==
  (/\ codec.pc = "decrypted"
   /\ codec.from = "encrypt"
   /\ codec.decryptKey = codec.key)
  => codec.result = Resolved(codec.plaintext)

\* C12: decrypt, given another key than the one encrypt was given, rejects
\* with the error of a failed authentication and returns no string.
C12_WrongKeyFails ==
  (/\ codec.pc = "decrypted"
   /\ codec.from = "encrypt"
   /\ codec.decryptKey # codec.key)
  => /\ codec.result.kind # "string"
     /\ codec.result = OperationErrorOutcome

\* a payload made under one key went through the .env export and back and
\* decrypt under the other key has rejected
C12_Witness ==
  /\ codec.pc = "decrypted"
  /\ codec.from = "encrypt"
  /\ codec.format = "env"
  /\ codec.plaintext # <<>>
  /\ codec.decryptKey # codec.key
  /\ codec.result = OperationErrorOutcome

\* C16: decrypt, given a payload whose iv or ciphertext is not valid base64,
\* rejects before crypto.subtle.decrypt is called, with an error that is not
\* the one of a failed authentication.
C16_MalformedRejectedBeforeAead ==
  (/\ codec.pc = "decrypted"
   /\ \/ ~isValidBase64(codec.payload.iv)
      \/ ~isValidBase64(codec.payload.ciphertext))
  => /\ ~codec.result.aead
     /\ codec.result.kind \notin {"string", "OperationError"}

\* C13: every encrypt call (the canary's in unlock, AddEnvDialog's, the
\* re-encryption of an edited file in handleSaveEdit) uses an iv that no
\* earlier encrypt call used and that no stored payload carries.
C13_FreshIvPerEncrypt ==
  [][/\ \A h \in Handlers \ {"DownloadEnv"} :
          (field[h].pc = "idle" /\ field'[h].pc = "crypto")
          => /\ field'[h].payload.iv \notin usedIvs
             /\ field'[h].payload.iv
                  \notin {profile.test_iv, envFile.iv, EnvVar0.iv}
     /\ \A c \in Calls :
          (pc[c] = "derive" /\ pc'[c] = "encrypt")
          => /\ blob'[c].iv \notin usedIvs
             /\ blob'[c].iv \notin {envFile.iv, EnvVar0.iv}]_vars

\* the canary was encrypted in this run and the edited file re-encrypted
\* under the same key, each with an iv of its own
C13_Witness ==
  /\ field["SaveEdit"].pc = "done"
  /\ Bootstrapped(profile)
  /\ envFile.iv >= FirstFreshIv
  /\ envFile.ciphertext.key = profile.test_ciphertext.key
  /\ envFile.iv # profile.test_iv

\* C17: the profile's canary is written only when the profile holds none
\* (so at most once, and never over an existing one).
C17_CanaryWrittenOnce ==
  [][(profile'.test_iv # profile.test_iv
      \/ profile'.test_ciphertext # profile.test_ciphertext)
     => ~HasTestPair(profile) /\ ~HasTestCiphertext(profile)]_vars

\* C18: the session is never Unlocked while the view is hidden, also when
\* the view became hidden while an unlock call was in flight.
C18_NeverUnlockedWhileHidden ==
  hidden => (~isUnlocked /\ cryptoKey = NullKey)

\* C19: a handler completes an encrypt or decrypt only with the key the
\* session holds at that time; after lock() has dropped the key no handler
\* completes one.
C19_NoCryptoWithDroppedKey ==
  [][\A h \in Handlers :
       (field[h].pc = "crypto" /\ field'[h].pc = "done")
       => (isUnlocked /\ cryptoKey # NullKey /\ field[h].key = cryptoKey)]_vars

\* C20: while the session is not Unlocked, decryptedContent of the env-file
\* details view is null, also after a decrypt that was started while Unlocked
\* has settled.
C20_NoPlaintextWhileLocked ==
  (view.mounted /\ ~isUnlocked) => view.decryptedContent = NoContent

\* C21: an unlock call resolves only from the step in which the canary
\* decrypt verified its key or from the step in which the update that
\* persists its new canary was answered; on no profile row does it resolve
\* having done neither.
C21_SuccessVerifiedOrBootstrapped ==
  [][\A c \in Calls :
       (pc[c] # "done" /\ pc'[c] = "done") => pc[c] \in {"decrypt", "updated"}]_vars

\* C22: when the session is Unlocked, the profile holds a canary and no
\* unlock call is in flight, the session's key decrypts that canary to
\* "UNLOCK_OK".
C22_SessionKeyOpensCanary ==
  (isUnlocked /\ HasTestPair(profile) /\ \A c \in Calls : ~InFlight(c))
  => /\ DecryptOk(profile.test_iv, profile.test_ciphertext, cryptoKey)
     /\ Decrypt(profile.test_iv, profile.test_ciphertext, cryptoKey) = UNLOCK_OK

\* C23: an inactivity timeout is pending only while the session is Unlocked;
\* the step that locks leaves none pending, and the step that unlocks starts
\* a new one, so no timeout of an earlier unlocked period is left to fire.
C23_TimerOnlyWhileUnlocked ==
  /\ [](timerArmed => isUnlocked)
  /\ [][/\ (isUnlocked /\ ~isUnlocked') => ~timerArmed'
        /\ (~isUnlocked /\ isUnlocked') => (timerArmed' /\ elapsed' = 0)]_vars

\* C23 witness: the session is Unlocked again after the timeout has locked
\* an earlier unlocked period, and its timeout has just been started.
C23_Witness ==
  /\ autoLock.cause = "timeout"
  /\ isUnlocked
  /\ timerArmed
  /\ elapsed = 0

\* C24: in every state the unlocked flag is true exactly when a key is held.
C24_FlagIffKey ==
  isUnlocked <=> (cryptoKey # NullKey)

\* C24 witness: the session holds a key again after the hidden signal has
\* locked it.
C24_Witness ==
  /\ autoLock.cause = "hidden"
  /\ isUnlocked
  /\ cryptoKey # NullKey

\* C25: a step of an unlock call changes the key or the unlocked flag only
\* when it is the step in which that call resolves; and a call that no lock()
\* has overtaken leaves, when it resolves, the session Unlocked with its own
\* key (so of overlapping calls the last one to resolve sets the state).
C25_StateSetOnlyOnResolve ==
  [][\A c \in Calls :
       Steps(c) =>
         /\ (<<cryptoKey, isUnlocked>>' # <<cryptoKey, isUnlocked>>)
              => pc'[c] = "done"
         /\ (pc'[c] = "done" /\ c \notin lockedDuring)
              => /\ isUnlocked'
                 /\ cryptoKey' = DeriveKey(pass[c], profile.encryption_salt)]_vars

\* C26: the step in which a decrypt of the env file's payload fails sets
\* that view's decryptedContent to null and changes nothing else: the key,
\* the unlocked flag, the inactivity timeout, the profile and the other
\* handlers stay as they are.
C26_FailedDecryptKeepsSession ==
  [][(\E d \in view.pending :
        /\ ~DecryptOk(d.payload.iv, d.payload.ciphertext, d.key)
        /\ d \notin view'.pending)
     => /\ UNCHANGED <<cryptoKey, isUnlocked, timerArmed, elapsed, profile,
                       field, envFile>>
        /\ view'.decryptedContent = NoContent]_vars

\* C26 witness: the view's decrypt of the env file has failed under the
\* session's key, and the session is Unlocked with that key.
C26_Witness ==
  /\ view.mounted
  /\ view.pending = {}
  /\ view.decryptedContent = NoContent
  /\ isUnlocked
  /\ cryptoKey # NullKey
  /\ ~DecryptOk(envFile.iv, envFile.ciphertext, cryptoKey)

\* C27: no step changes the profile's encryption_salt.
C27_SaltNeverChanges ==
  [][profile'.encryption_salt = profile.encryption_salt]_vars

\* C27 witness: the first-time unlock has written its canary to the profile,
\* the mount-time check has answered, and the salt is the one the row had.
C27_Witness ==
  /\ profile.encryption_salt = Salt
  /\ HasTestPair(profile)
  /\ profile.test_iv >= FirstFreshIv
  /\ checkPc = "done"

\* C28: whenever the session is Unlocked, isPassphraseSetup is true and the
\* banner offers the Lock control.
C28_UnlockedShowsLock ==
  isUnlocked => (isPassphraseSetup /\ PassphraseStatusAlert = "Lock")

\* C29: every entry parseEncryptedEnvContent returns has a non-empty key, a
\* non-empty iv and a non-empty ciphertext.
C29_EntriesHaveNoEmptyPart ==
  parser.pc = "parsed"
  => \A i \in 1..Len(parser.entries) :
       /\ parser.entries[i].key # <<>>
       /\ parser.entries[i].iv # <<>>
       /\ parser.entries[i].ciphertext # <<>>

\* C30: for every entry, isValidEncryptedEntry gives the verdict that
\* isValidBase64 gives for its iv and its ciphertext together.
C30_ValidatorsAgree ==
  \A i \in 1..Len(parser.verdicts) :
    parser.verdicts[i].entry <=> parser.verdicts[i].base64

====
